---- MODULE Spec2Model ----
(***************************************************************************)
(* Model of reana_workflow_controller/opensearch.py: OpenSearchLogFetcher. *)
(*                                                                         *)
(* The fetcher is an immutable configuration object (self) plus a client   *)
(* handle (os_client).  Every public method is one synchronous call that   *)
(* blocks in os_client.search until the remote engine answers or raises:   *)
(* pc = "searching" is that point of the call.  The state records the      *)
(* current or last invocation (operation, arguments, requests sent to      *)
(* os_client.search, the engine's answer, returned value, escaped          *)
(* exception) and the records given to logging.error.                      *)
(*                                                                         *)
(* Python values:                                                          *)
(*   str | None       [isNone, v]  with v a string                         *)
(*   dict | None      [isNone, v]  with v a sequence of <<key, value>>     *)
(*                    pairs, keys distinct, in insertion order             *)
(*   log text         a sequence of characters (LF is the line break)      *)
(***************************************************************************)
EXTENDS Integers, Sequences, FiniteSets, TLC

VARIABLES self, pc, op, arg, call, requests, remote, result, raised, log, emitted, nCalls

vars == <<self, pc, op, arg, call, requests, remote, result, raised, log, emitted, nCalls>>

----------------------------------------------------------------------------
(* Bounds *)

MaxHits == 2
MaxCalls == 2

----------------------------------------------------------------------------
(* Python optionals and truthiness *)

NoneStr == [isNone |-> TRUE, v |-> ""]
SomeStr(s) == [isNone |-> FALSE, v |-> s]
NoneDict == [isNone |-> TRUE, v |-> <<>>]
SomeDict(d) == [isNone |-> FALSE, v |-> d]
NoneText == [isNone |-> TRUE, v |-> <<>>]
SomeText(t) == [isNone |-> FALSE, v |-> t]

\* bool(x) of a str | None: None and "" are falsy
TruthyStr(x) == ~x.isNone /\ x.v # ""
\* bool(x) of a dict | None: None and {} are falsy
TruthyDict(x) == ~x.isNone /\ Len(x.v) > 0

\* str(x) as the f-string formats it
FormatStr(x) == IF x.isNone THEN "None" ELSE x.v

----------------------------------------------------------------------------
(* Python dict: insertion-ordered, a later value for a key replaces the     *)
(* earlier one in place                                                    *)

DictKeys(d) == {d[i][1] : i \in 1..Len(d)}

DictSet(d, k, val) ==
  IF k \in DictKeys(d)
  THEN [i \in 1..Len(d) |-> IF d[i][1] = k THEN <<k, val>> ELSE d[i]]
  ELSE Append(d, <<k, val>>)

RECURSIVE DictLiteral(_)
DictLiteral(pairs) ==
  IF pairs = <<>> THEN <<>>
  ELSE LET n == Len(pairs)
       IN DictSet(DictLiteral(SubSeq(pairs, 1, n - 1)), pairs[n][1], pairs[n][2])

----------------------------------------------------------------------------
(* Configuration: defaults of OpenSearchLogFetcher.__init__ *)

JobIndex == "fluentbit-job_log"
WorkflowIndex == "fluentbit-workflow_log"
DaskIndex == "fluentbit-dask_log"
MaxRows == 5000
LogKey == "log"
JobLogMatcher == "kubernetes.labels.job-name.keyword"
WorkflowLogMatcher == "kubernetes.labels.reana-run-batch-workflow-uuid.keyword"
DaskLogMatcher == "kubernetes.labels.dask.org/cluster-name.keyword"
Timeout == 5
ComponentField == "kubernetes.labels.dask.org/component"
TimestampField == "@timestamp"
Orders == {"asc", "desc"}

Fetcher(o) ==
  [job_index |-> JobIndex,
   workflow_index |-> WorkflowIndex,
   dask_index |-> DaskIndex,
   max_rows |-> MaxRows,
   log_key |-> LogKey,
   order |-> o,
   job_log_matcher |-> JobLogMatcher,
   workflow_log_matcher |-> WorkflowLogMatcher,
   dask_log_matcher |-> DaskLogMatcher,
   timeout |-> Timeout]

\* reana_commons.utils.get_dask_component_name: a deterministic name built
\* from the workflow identifier and the role
get_dask_component_name(workflow_id, component_type) ==
  "reana-run-dask-" \o component_type \o "-" \o workflow_id

----------------------------------------------------------------------------
(* Inputs *)

LF == "\n"
Ids == {"wf-1", "job-1"}
LogValues == {<<>>, <<"a">>, <<"b", LF, "c">>}
OtherKey == "stream"

\* _source of a hit: with the log field, or without it
Sources ==
  {[k \in {LogKey} |-> t] : t \in LogValues} \cup {[k \in {OtherKey} |-> <<"x">>]}

Hit(src) == [_source |-> src]

HitLists == UNION {[1..n -> {Hit(s) : s \in Sources}] : n \in 0..MaxHits}

Exceptions == {"ConnectionError", "RequestError"}

\* what os_client.search does when called: returns a response or raises
Remotes ==
  {[kind |-> "ok", hits |-> h, exc |-> ""] : h \in HitLists}
    \cup {[kind |-> "error", hits |-> <<>>, exc |-> e] : e \in Exceptions}

NoRemote == [kind |-> "none", hits |-> <<>>, exc |-> ""]

MatchArgs == {NoneStr, SomeStr(""), SomeStr(JobLogMatcher)}
MatchesArgs ==
  {NoneDict, SomeDict(<<>>),
   SomeDict(<<<<JobLogMatcher, "job-2">>>>),
   SomeDict(<<<<DaskLogMatcher, "c1">>, <<ComponentField, "worker">>>>),
   SomeDict(<<<<ComponentField, "worker">>, <<DaskLogMatcher, "c1">>>>)}
IdIndexArgs ==
  {<<NoneStr, DaskIndex>>, <<SomeStr(""), WorkflowIndex>>, <<SomeStr("job-1"), JobIndex>>}

----------------------------------------------------------------------------
(* Query documents *)

\* mutant: the sort order is fixed instead of configured
SortClauseFixed(slf) == <<[order |-> "asc", field |-> TimestampField]>>

SortClause(slf) == <<[order |-> slf.order, field |-> TimestampField]>>

\* {"match": {field: value}}
MatchClause(field, value) == [match |-> [field |-> field, value |-> value]]

\* mutant: the comprehension stops one item short
MustListShort(items) ==
  [i \in 1..(Len(items) - 1) |-> MatchClause(items[i][1], SomeStr(items[i][2]))]

\* the list comprehension over matches.items()
MustList(items) ==
  [i \in 1..Len(items) |-> MatchClause(items[i][1], SomeStr(items[i][2]))]

\* the bool query with multiple conditions
BoolQuery(slf, matches) ==
  [query |-> [bool |-> [must |-> MustList(matches.v)]],
   sort |-> SortClause(slf)]

\* the simple single-match query
MatchQuery(slf, match, id) ==
  [query |-> MatchClause(match.v, id),
   sort |-> SortClause(slf)]

\* mutant: "if matches is not None" instead of "if matches"
UsesMatchesNotNone(matches) == ~matches.isNone

UsesMatches(matches) == TruthyDict(matches)
UsesMatch(match) == TruthyStr(match)

\* mutant: the single-match branch is taken without testing match
BuildQueryUnguarded(slf, c) ==
  IF UsesMatches(c.matches) THEN <<BoolQuery(slf, c.matches)>>
  ELSE <<MatchQuery(slf, c.match, c.id)>>

\* the query fetch_logs builds: <<query>>, or <<>> when neither branch applies
BuildQuery(slf, c) ==
  IF UsesMatches(c.matches) THEN <<BoolQuery(slf, c.matches)>>
  ELSE IF UsesMatch(c.match) THEN <<MatchQuery(slf, c.match, c.id)>>
  ELSE <<>>

\* the keyword arguments of os_client.search
SearchRequest(slf, index, query) ==
  [timeout |-> slf.timeout, index |-> index, body |-> query, size |-> slf.max_rows]

----------------------------------------------------------------------------
(* Outcome of a step of a call: where the call is afterwards, the requests *)
(* sent to os_client.search so far, the returned value, the exception that *)
(* escaped ("" for none) and the records given to logging.error            *)

Outcome(at, reqs, res, exc, logged) ==
  [pc |-> at, requests |-> reqs, result |-> res, raised |-> exc, logged |-> logged]

MisuseRecord ==
  [level |-> "ERROR", msg |-> <<"Either match or matches must be provided.">>]

\* f"Failed to fetch logs for {id}: {e}"
FailureRecord(id, e) ==
  [level |-> "ERROR", msg |-> <<"Failed to fetch logs for ", FormatStr(id), ": ", e>>]

\* the else branch of the matcher selection: log and return None
Misuse == Outcome("idle", <<>>, NoneText, "", <<MisuseRecord>>)

\* entering the try block: os_client.search is called with the query
Sent(req) == Outcome("searching", <<req>>, NoneText, "", <<>>)

\* fetch_logs up to the call of os_client.search
fetch_logs(slf, c) ==
  LET q == BuildQuery(slf, c)
  IN IF q = <<>> THEN Misuse ELSE Sent(SearchRequest(slf, c.index, q[1]))

\* mutant: the exception of os_client.search is logged and raised again
SearchFailedReraises(reqs, id, e) ==
  Outcome("idle", reqs, NoneText, e, <<FailureRecord(id, e)>>)

\* mutant: the failed search is issued once more
SearchFailedRetries(reqs, id, e) ==
  Outcome("searching", reqs \o reqs, NoneText, "", <<FailureRecord(id, e)>>)

\* the except branch around os_client.search: log and return None
SearchFailed(reqs, id, e) ==
  Outcome("idle", reqs, NoneText, "", <<FailureRecord(id, e)>>)

\* _concat_rows: a hit without the log field raises KeyError
RECURSIVE ConcatFrom(_, _, _)
ConcatFrom(slf, rows, logs) ==
  IF rows = <<>> THEN [raised |-> "", logs |-> logs]
  ELSE IF slf.log_key \notin DOMAIN Head(rows)._source
       THEN [raised |-> "KeyError", logs |-> <<>>]
       ELSE ConcatFrom(slf, Tail(rows),
                       logs \o Head(rows)._source[slf.log_key] \o <<LF>>)

\* mutant: each row is put in front of the rows before it
RECURSIVE ConcatFromFront(_, _, _)
ConcatFromFront(slf, rows, logs) ==
  IF rows = <<>> THEN [raised |-> "", logs |-> logs]
  ELSE IF slf.log_key \notin DOMAIN Head(rows)._source
       THEN [raised |-> "KeyError", logs |-> <<>>]
       ELSE ConcatFromFront(slf, Tail(rows),
                            Head(rows)._source[slf.log_key] \o <<LF>> \o logs)

concat_rows_front(slf, rows) == ConcatFromFront(slf, rows, <<>>)

_concat_rows(slf, rows) == ConcatFrom(slf, rows, <<>>)

\* return self._concat_rows(response["hits"]["hits"])
SearchReturned(slf, reqs, hits) ==
  LET c == _concat_rows(slf, hits)
  IN IF c.raised # ""
     THEN Outcome("idle", reqs, NoneText, c.raised, <<>>)
     ELSE Outcome("idle", reqs, SomeText(c.logs), "", <<>>)

\* fetch_logs from the answer of os_client.search on
fetch_logs_answered(slf, c, reqs, rem) ==
  IF rem.kind = "error"
  THEN SearchFailed(reqs, c.id, rem.exc)
  ELSE SearchReturned(slf, reqs, rem.hits)

\* arguments of fetch_logs
Call(id, index, match, matches) ==
  [match |-> match, matches |-> matches, id |-> id, index |-> index]

\* mutant: the job fetch reads the workflow index
fetch_job_logs_wrong_index(slf, backend_job_id) ==
  Call(SomeStr(backend_job_id), slf.workflow_index, SomeStr(slf.job_log_matcher),
       NoneDict)

fetch_job_logs(slf, backend_job_id) ==
  Call(SomeStr(backend_job_id), slf.job_index, SomeStr(slf.job_log_matcher), NoneDict)

fetch_workflow_logs(slf, workflow_id) ==
  Call(SomeStr(workflow_id), slf.workflow_index, SomeStr(slf.workflow_log_matcher),
       NoneDict)

fetch_dask_scheduler_logs(slf, workflow_id) ==
  Call(NoneStr, slf.dask_index, NoneStr,
       SomeDict(DictLiteral(
         << <<slf.dask_log_matcher, get_dask_component_name(workflow_id, "cluster")>>,
            <<ComponentField, "scheduler">> >>)))

\* mutant: the worker fetch derives the name with the role "worker"
fetch_dask_worker_logs_wrong_role(slf, workflow_id) ==
  Call(NoneStr, slf.dask_index, NoneStr,
       SomeDict(DictLiteral(
         << <<slf.dask_log_matcher, get_dask_component_name(workflow_id, "worker")>>,
            <<ComponentField, "worker">> >>)))

fetch_dask_worker_logs(slf, workflow_id) ==
  Call(NoneStr, slf.dask_index, NoneStr,
       SomeDict(DictLiteral(
         << <<slf.dask_log_matcher, get_dask_component_name(workflow_id, "cluster")>>,
            <<ComponentField, "worker">> >>)))

----------------------------------------------------------------------------
(* State machine: one action per public method, one for the engine's answer *)

NoCall == Call(NoneStr, "", NoneStr, NoneDict)

Init ==
  /\ self \in {Fetcher(o) : o \in Orders}
  /\ pc = "idle"
  /\ op = "none"
  /\ arg = ""
  /\ call = NoCall
  /\ requests = <<>>
  /\ remote = NoRemote
  /\ result = NoneText
  /\ raised = ""
  /\ log = <<>>
  /\ emitted = 0
  /\ nCalls = 0

Apply(out) ==
  /\ pc' = out.pc
  /\ requests' = out.requests
  /\ result' = out.result
  /\ raised' = out.raised
  /\ log' = log \o out.logged
  /\ emitted' = Len(out.logged)

\* operation name, called with a, calls fetch_logs with the arguments c
Invoke(name, a, c) ==
  /\ pc = "idle"
  /\ nCalls < MaxCalls
  /\ op' = name
  /\ arg' = a
  /\ call' = c
  /\ remote' = NoRemote
  /\ nCalls' = nCalls + 1
  /\ Apply(fetch_logs(self, c))
  /\ UNCHANGED self

FetchLogs ==
  \E ii \in IdIndexArgs, match \in MatchArgs, matches \in MatchesArgs :
    Invoke("fetch_logs", FormatStr(ii[1]), Call(ii[1], ii[2], match, matches))

FetchJobLogs ==
  \E j \in Ids : Invoke("fetch_job_logs", j, fetch_job_logs(self, j))

FetchWorkflowLogs ==
  \E w \in Ids : Invoke("fetch_workflow_logs", w, fetch_workflow_logs(self, w))

FetchDaskSchedulerLogs ==
  \E w \in Ids :
    Invoke("fetch_dask_scheduler_logs", w, fetch_dask_scheduler_logs(self, w))

FetchDaskWorkerLogs ==
  \E w \in Ids :
    Invoke("fetch_dask_worker_logs", w, fetch_dask_worker_logs(self, w))

\* os_client.search returns or raises, and the call runs to its end
SearchAnswers ==
  /\ pc = "searching"
  /\ \E rem \in Remotes :
       /\ remote' = rem
       /\ Apply(fetch_logs_answered(self, call, requests, rem))
  /\ UNCHANGED <<self, op, arg, call, nCalls>>

Next ==
  \/ FetchLogs
  \/ FetchJobLogs
  \/ FetchWorkflowLogs
  \/ FetchDaskSchedulerLogs
  \/ FetchDaskWorkerLogs
  \/ SearchAnswers

Spec == Init /\ [][Next]_vars

----------------------------------------------------------------------------
(* Vocabulary of the properties *)

\* the last call has returned or raised
Returned == pc = "idle" /\ op # "none"

Range(f) == {f[i] : i \in DOMAIN f}

ConvenienceOps ==
  {"fetch_job_logs", "fetch_workflow_logs",
   "fetch_dask_scheduler_logs", "fetch_dask_worker_logs"}

\* every hit of the answer has the configured log-text field
AllHaveLogField(hits) == \A i \in 1..Len(hits) : self.log_key \in DOMAIN hits[i]._source

LogText(hits, i) == hits[i]._source[self.log_key]

CountLF(t) == Cardinality({i \in 1..Len(t) : t[i] = LF})

\* position before the entry of hit i in the joined text
RECURSIVE EntryStart(_, _)
EntryStart(hits, i) ==
  IF i = 1 THEN 0 ELSE EntryStart(hits, i - 1) + Len(LogText(hits, i - 1)) + 1

\* t is the hits' log texts, in order, each followed by a line break
IsJoinOf(t, hits) ==
  /\ Len(t) = EntryStart(hits, Len(hits) + 1)
  /\ \A i \in 1..Len(hits) :
       LET from == EntryStart(hits, i)
           n == Len(LogText(hits, i))
       IN /\ SubSeq(t, from + 1, from + n) = LogText(hits, i)
          /\ t[from + n + 1] = LF

RECURSIVE InnerLF(_, _)
InnerLF(hits, i) ==
  IF i = 0 THEN 0 ELSE InnerLF(hits, i - 1) + CountLF(LogText(hits, i))

ExpectedSort == <<[order |-> self.order, field |-> "@timestamp"]>>

\* the {"match": {field: value}} entries of a must list, as a set
MustSet(q) == Range(q.query.bool.must)

IsBoolQueryOf(q, pairs) ==
  /\ DOMAIN q = {"query", "sort"}
  /\ DOMAIN q.query = {"bool"}
  /\ DOMAIN q.query.bool = {"must"}
  /\ MustSet(q) =
       {[match |-> [field |-> pr[1], value |-> SomeStr(pr[2])]] : pr \in pairs}
  /\ Len(q.query.bool.must) = Cardinality(pairs)
  /\ q.sort = ExpectedSort

IsMatchQueryOf(q, field, value) ==
  /\ DOMAIN q = {"query", "sort"}
  /\ DOMAIN q.query = {"match"}
  /\ q.query.match = [field |-> field, value |-> value]
  /\ q.sort = ExpectedSort

----------------------------------------------------------------------------
(* C1: fetch_logs called with neither match nor matches returns None and   *)
(* makes no call of os_client.search                                       *)
C1_NoMatcherNoSearch ==
  (op = "fetch_logs" /\ call.match.isNone /\ call.matches.isNone)
    => /\ pc = "idle"
       /\ requests = <<>>
       /\ result.isNone
       /\ raised = ""

C1_Witness ==
  /\ op = "fetch_logs"
  /\ call.match.isNone /\ call.matches.isNone
  /\ call.id = SomeStr("job-1")
  /\ emitted = 1

(* C2: when os_client.search raises, the call (fetch_logs or one of the    *)
(* four convenience operations) returns None and no exception escapes      *)
C2_SearchErrorGivesNone ==
  (Returned /\ remote.kind = "error") => (result.isNone /\ raised = "")

C2_Witness ==
  /\ Returned
  /\ remote.kind = "error"
  /\ op = "fetch_dask_worker_logs"
  /\ result.isNone

(* C3 as stated: a successful answer of N hits, each with the log field,   *)
(* gives a string of exactly N lines, each hit's value followed by a line  *)
(* break, in the answer's order; the empty string for N = 0                *)
C3_ExactlyNLines ==
  (Returned /\ remote.kind = "ok" /\ AllHaveLogField(remote.hits))
    => /\ ~result.isNone
       /\ raised = ""
       /\ IsJoinOf(result.v, remote.hits)
       /\ CountLF(result.v) = Len(remote.hits)

(* C3 as amended: the result is the N entries, each hit's value followed   *)
(* by a line break, in the answer's order, none dropped, duplicated or     *)
(* reordered; its line breaks are those N plus the ones inside the values, *)
(* so it has exactly N lines when no value holds a line break; the empty   *)
(* string, not None, for N = 0                                             *)
C3_JoinedInOrder ==
  (Returned /\ remote.kind = "ok" /\ AllHaveLogField(remote.hits))
    => /\ ~result.isNone
       /\ raised = ""
       /\ IsJoinOf(result.v, remote.hits)
       /\ CountLF(result.v) = Len(remote.hits) + InnerLF(remote.hits, Len(remote.hits))
       /\ (remote.hits = <<>> => result.v = <<>>)

C3_Witness ==
  /\ Returned
  /\ remote.kind = "ok"
  /\ remote.hits = <<Hit([k \in {LogKey} |-> <<"a">>]),
                     Hit([k \in {LogKey} |-> <<"b", LF, "c">>])>>
  /\ result = SomeText(<<"a", LF, "b", LF, "c", LF>>)

(* C4: a single-match call (match given, matches not) sends a query with   *)
(* exactly one match clause, on the field match with the value id, and the *)
(* timestamp sort clause in the configured order                           *)
C4_SingleMatchQuery ==
  (op # "none" /\ call.matches.isNone /\ TruthyStr(call.match))
    => /\ Len(requests) >= 1
       /\ \A i \in 1..Len(requests) :
            IsMatchQueryOf(requests[i].body, call.match.v, call.id)

C4_Witness ==
  /\ op = "fetch_logs"
  /\ call.matches.isNone
  /\ call.match = SomeStr(JobLogMatcher)
  /\ call.id = SomeStr("job-1")
  /\ self.order = "desc"
  /\ Len(requests) = 1

(* C5: a multi-match call sends a bool query whose must list has exactly   *)
(* one match entry per field/value pair of matches, whatever the order of  *)
(* the pairs, and the timestamp sort clause in the configured order        *)
C5_MultiMatchQuery ==
  (op # "none" /\ TruthyDict(call.matches))
    => /\ Len(requests) >= 1
       /\ \A i \in 1..Len(requests) :
            IsBoolQueryOf(requests[i].body, Range(call.matches.v))

C5_Witness ==
  /\ op = "fetch_logs"
  /\ call.matches.v = <<<<ComponentField, "worker">>, <<DaskLogMatcher, "c1">>>>
  /\ self.order = "desc"
  /\ Len(requests) = 1
  /\ MustSet(requests[1].body) =
       {MatchClause(DaskLogMatcher, SomeStr("c1")),
        MatchClause(ComponentField, SomeStr("worker"))}

DaskComponent == IF op = "fetch_dask_scheduler_logs" THEN "scheduler" ELSE "worker"

DiffersOnlyInComponent(a, b) ==
  /\ a.index = b.index
  /\ a.id = b.id
  /\ a.match = b.match
  /\ DictKeys(a.matches.v) = DictKeys(b.matches.v)
  /\ \A i \in 1..Len(a.matches.v), j \in 1..Len(b.matches.v) :
       (a.matches.v[i][1] = b.matches.v[j][1] /\ a.matches.v[i][1] # ComponentField)
         => a.matches.v[i][2] = b.matches.v[j][2]
  /\ <<ComponentField, "scheduler">> \in Range(a.matches.v)
  /\ <<ComponentField, "worker">> \in Range(b.matches.v)

(* C6: the scheduler fetch and the worker fetch of a workflow w query the   *)
(* same (Dask) index with matchers that differ only in the component value *)
(* ("scheduler" or "worker") and share the cluster name derived from w     *)
(* with the role "cluster"                                                 *)
C6_DaskMatchers ==
  (op \in {"fetch_dask_scheduler_logs", "fetch_dask_worker_logs"})
    => /\ Len(requests) >= 1
       /\ \A i \in 1..Len(requests) :
            /\ requests[i].index = self.dask_index
            /\ IsBoolQueryOf(requests[i].body,
                 {<<self.dask_log_matcher, get_dask_component_name(arg, "cluster")>>,
                  <<ComponentField, DaskComponent>>})
       /\ DiffersOnlyInComponent(fetch_dask_scheduler_logs(self, arg),
                                 fetch_dask_worker_logs(self, arg))
       /\ call = IF op = "fetch_dask_scheduler_logs"
                 THEN fetch_dask_scheduler_logs(self, arg)
                 ELSE fetch_dask_worker_logs(self, arg)

C6_Witness ==
  /\ op = "fetch_dask_worker_logs"
  /\ arg = "wf-1"
  /\ Len(requests) = 1
  /\ MatchClause(ComponentField, SomeStr("worker")) \in MustSet(requests[1].body)

PrimitiveCall ==
  IF op = "fetch_job_logs"
  THEN Call(SomeStr(arg), self.job_index, SomeStr(self.job_log_matcher), NoneDict)
  ELSE Call(SomeStr(arg), self.workflow_index, SomeStr(self.workflow_log_matcher),
            NoneDict)

(* C7: fetch_job_logs(j) is fetch_logs(j, job index, job matcher) and      *)
(* fetch_workflow_logs(w) is fetch_logs(w, workflow index, workflow        *)
(* matcher): same index queried, same query sent, same result for every    *)
(* answer of the engine; neither queries another index                     *)
C7_ConvenienceIsPrimitive ==
  (op \in {"fetch_job_logs", "fetch_workflow_logs"})
    => /\ call = PrimitiveCall
       /\ Len(requests) = 1
       /\ requests[1].index =
            (IF op = "fetch_job_logs" THEN self.job_index ELSE self.workflow_index)
       /\ requests[1].index \notin
            ({self.job_index, self.workflow_index, self.dask_index}
               \ {IF op = "fetch_job_logs" THEN self.job_index ELSE self.workflow_index})
       /\ IsMatchQueryOf(requests[1].body,
            IF op = "fetch_job_logs" THEN self.job_log_matcher
            ELSE self.workflow_log_matcher,
            SomeStr(arg))
       /\ requests = fetch_logs(self, PrimitiveCall).requests
       /\ pc = "idle" =>
            LET prim == fetch_logs_answered(self, PrimitiveCall, requests, remote)
            IN result = prim.result /\ raised = prim.raised

C7_Witness ==
  /\ op = "fetch_job_logs"
  /\ arg = "job-1"
  /\ pc = "idle"
  /\ requests[1].index = JobIndex
  /\ result = SomeText(<<"a", LF>>)

MatcherSupplied == TruthyDict(call.matches) \/ TruthyStr(call.match)

(* C8: no retries: every invocation calls os_client.search at most once,   *)
(* exactly once when a matcher is supplied, whether the search succeeds or *)
(* fails; a failed fetch is not issued again, and earlier failures do not  *)
(* change what a later invocation returns                                  *)
C8_NoRetries ==
  /\ Len(requests) <= 1
  /\ op # "none" => (Len(requests) = 1 <=> MatcherSupplied)
  /\ (pc = "searching") => (Len(requests) = 1 /\ remote = NoRemote)
  /\ Returned =>
       /\ (remote.kind = "none") <=> ~MatcherSupplied
       /\ (remote.kind = "error") => (result.isNone /\ raised = "" /\ emitted = 1)
       /\ (remote.kind = "ok" /\ AllHaveLogField(remote.hits))
            => (~result.isNone /\ raised = "" /\ emitted = 0)

\* an invocation that succeeds after an earlier one failed
C8_Witness ==
  /\ Returned
  /\ nCalls = 2
  /\ Len(log) = 1 /\ emitted = 0
  /\ log[1].msg[1] = "Failed to fetch logs for "
  /\ remote.kind = "ok"
  /\ Len(requests) = 1
  /\ result = SomeText(<<"a", LF>>)

(* C9: when os_client.search raises, the error logged by each of the four  *)
(* retrieval operations carries the identifier its caller passed           *)
C9_LoggedErrorHasIdentifier ==
  (Returned /\ remote.kind = "error" /\ op \in ConvenienceOps)
    => /\ emitted = 1
       /\ arg \in Range(log[Len(log)].msg)

(* C10: matches has precedence when it is non-empty: with both given, the  *)
(* query is the bool query built from matches only; with matches empty and *)
(* match non-empty, the single-match query; with matches empty or None and *)
(* match empty or None, the call is misuse: None, no search                *)
C10_MatcherPrecedence ==
  (op # "none") =>
    /\ TruthyDict(call.matches)
         => /\ Len(requests) = 1
            /\ IsBoolQueryOf(requests[1].body, Range(call.matches.v))
    /\ (~TruthyDict(call.matches) /\ TruthyStr(call.match))
         => /\ Len(requests) = 1
            /\ IsMatchQueryOf(requests[1].body, call.match.v, call.id)
    /\ (~TruthyDict(call.matches) /\ ~TruthyStr(call.match))
         => /\ pc = "idle"
            /\ requests = <<>>
            /\ result.isNone
            /\ raised = ""

\* both given: the query comes from matches alone
C10_Witness ==
  /\ op = "fetch_logs"
  /\ call.match = SomeStr(JobLogMatcher)
  /\ call.id = SomeStr("job-1")
  /\ call.matches.v = <<<<DaskLogMatcher, "c1">>, <<ComponentField, "worker">>>>
  /\ Len(requests) = 1
  /\ MustSet(requests[1].body) =
       {MatchClause(DaskLogMatcher, SomeStr("c1")),
        MatchClause(ComponentField, SomeStr("worker"))}

====
